---------------------------- MODULE Spec2Model ----------------------------
(***************************************************************************)
(* depree: dry run of the patches of a git rebase script against a         *)
(* simulated file tree (src/main.rs).                                       *)
(*                                                                         *)
(* Machine integers.  usize and isize are 64 bits wide, u32 is 32 bits     *)
(* wide.  Every machine integer is held as the integer of least absolute   *)
(* value in its residue class: a usize that wrapped below 0 to 2^64 - k is *)
(* held as -k, which is also the isize it casts to.  All values of the     *)
(* model stay far inside (-2^31, 2^31), so additions of residues are exact *)
(* and a usize addition overflows exactly when a negative residue becomes  *)
(* non-negative.  A build with overflow checks (debug) panics there, a     *)
(* build without (release) wraps: overflow_checks is the build.            *)
(***************************************************************************)
EXTENDS Integers, Sequences, FiniteSets, TLC

VARIABLES
    overflow_checks, \* the build: TRUE panics on integer overflow, FALSE wraps
    fileset,         \* FileSet: path -> FileState
    commits,         \* Vec<(line_nr, ChangeSet)> built from the script
    pc,              \* position of the run
    index,           \* commits already consumed by the apply loop
    report,          \* the MergeErrors the run printed, in order
    source_diff,     \* apply_hunks: the drift accumulator of the call in progress
    steps,           \* the hunk iterations of the latest apply()/apply_hunks()
    abort            \* the panic that ended the process, "" while there is none

vars == <<overflow_checks, fileset, commits, pc, index, report, source_diff, steps, abort>>

---------------------------------------------------------------------------
(* Bounds *)

\* longest file content drawn as an input of apply_hunks
MaxContent == 3
\* longest hunk.source drawn as an input of apply_hunks
MaxSource == 2
\* longest hunk.target drawn as an input of apply_hunks
MaxTarget == 2
\* largest predicted source line drawn as an input of apply_hunks
MaxLine == 3
\* most hunks of one FileInfo given to apply_hunks
MaxHunks == 2

Lines == {"A", "B"}

---------------------------------------------------------------------------
(* Helpers *)

SeqsUpTo(S, n) == UNION {[1..k -> S] : k \in 0..n}

\* 0-based indexing of an im::Vector
At(v, i) == v[i + 1]

None == [some |-> FALSE]
Some(v) == [some |-> TRUE, v |-> v]

---------------------------------------------------------------------------
(* Hunk, FileInfo *)

Hunk(source, target) == [source |-> source, target |-> target]

Hunks == {Hunk(s, t) : s \in SeqsUpTo(Lines, MaxSource), t \in SeqsUpTo(Lines, MaxTarget)}

\* (LineNr, Hunk)
HunkEntries == {<<n, h>> : n \in 0..MaxLine, h \in Hunks}

Contents == SeqsUpTo(Lines, MaxContent)

---------------------------------------------------------------------------
(* MergeError *)

\* `*source_line as u32`: the low 32 bits, the same residue
AsU32(n) == n

UnappliedHunk(n) == [err |-> "UnappliedHunk", line |-> n]

---------------------------------------------------------------------------
(* apply_hunks: the search for the place of one hunk *)

PlacesSwapped(distance) == IF distance = 0 THEN <<0>> ELSE <<-distance, distance>>

\* the offsets tried at one distance, in order
Places(distance) == IF distance = 0 THEN <<0>> ELSE <<distance, -distance>>

\* the window start for an offset: Some(v), None when skipped, Panic on overflow
Candidate(pivot_line, place, s_l, c_l, oc) ==
    IF place < 0
    THEN IF pivot_line >= -place
         THEN [kind |-> "Some", v |-> pivot_line + place]
         ELSE [kind |-> "None", v |-> 0]
    ELSE IF place > 0
    THEN LET sum == pivot_line + place + s_l
         IN  IF pivot_line < 0 /\ sum >= 0 /\ oc
             THEN [kind |-> "Panic", v |-> 0]
             ELSE IF sum < 0 \/ sum > c_l
             THEN [kind |-> "None", v |-> 0]
             ELSE [kind |-> "Some", v |-> pivot_line + place]
    ELSE [kind |-> "Some", v |-> pivot_line]

RECURSIVE CompareFrom(_, _, _, _, _)
\* the comparison loop of one window, from source line `line` on:
\* "match", "mismatch" (continue 'next), or the panic: "index" (content index
\* out of bounds), "overflow" (line + v overflows in a checked build)
CompareFrom(content, source, v, line, oc) ==
    IF line >= Len(source) THEN "match"
    ELSE LET idx == line + v
         IN  IF v < 0 /\ idx >= 0 /\ oc THEN "overflow"
             ELSE IF idx < 0 \/ idx >= Len(content) THEN "index"
             ELSE IF At(source, line) # At(content, idx) THEN "mismatch"
             ELSE CompareFrom(content, source, v, line + 1, oc)

RECURSIVE TryPlaces(_, _, _, _, _, _, _)
RECURSIVE TryPlace(_, _, _, _, _, _, _, _)
RECURSIVE TryWindow(_, _, _, _, _, _, _, _, _)
\* the 'next loop over the places of one distance, from the k-th place on
TryPlaces(content, hunk, pivot_line, places, k, tested, oc) ==
    IF k > Len(places) THEN [kind |-> "next", v |-> 0, tested |-> tested, panic |-> ""]
    ELSE TryPlace(content, hunk, pivot_line, places, k, tested,
                  Candidate(pivot_line, places[k], Len(hunk.source), Len(content), oc),
                  oc)

\* `if let Some(v) = v`, c the candidate of the k-th place
TryPlace(content, hunk, pivot_line, places, k, tested, c, oc) ==
    IF c.kind = "Panic"
    THEN [kind |-> "panic", v |-> 0, tested |-> tested, panic |-> "overflow"]
    ELSE IF c.kind = "None"
    THEN TryPlaces(content, hunk, pivot_line, places, k + 1, tested, oc)
    ELSE TryWindow(content, hunk, pivot_line, places, k, Append(tested, places[k]),
                   c.v, CompareFrom(content, hunk.source, c.v, 0, oc), oc)

\* after the comparison r of the window at v: break 'found or continue 'next
TryWindow(content, hunk, pivot_line, places, k, tested, v, r, oc) ==
    IF r = "match"
    THEN [kind |-> "found", v |-> v, tested |-> tested, panic |-> ""]
    ELSE IF r # "mismatch"
    THEN [kind |-> "panic", v |-> 0, tested |-> tested, panic |-> r]
    ELSE TryPlaces(content, hunk, pivot_line, places, k + 1, tested, oc)

RECURSIVE Search(_, _, _, _, _, _)
RECURSIVE SearchAfter(_, _, _, _, _, _)
\* the 'found loop, from `distance` on; fuzz is Some(offset) or None
Search(content, hunk, pivot_line, distance, tested, oc) ==
    IF ~(distance < Len(content))
    THEN [panic |-> "", fuzz |-> None, tested |-> tested]
    ELSE SearchAfter(content, hunk, pivot_line, distance,
                     TryPlaces(content, hunk, pivot_line, Places(distance), 1, tested, oc),
                     oc)

\* after the places r of one distance: break 'found, or distance += 1
SearchAfter(content, hunk, pivot_line, distance, r, oc) ==
    IF r.kind = "panic"
    THEN [panic |-> r.panic, fuzz |-> None, tested |-> r.tested]
    ELSE IF r.kind = "found"
    THEN [panic |-> "", fuzz |-> Some(r.v - pivot_line), tested |-> r.tested]
    ELSE Search(content, hunk, pivot_line, distance + 1, r.tested, oc)

---------------------------------------------------------------------------
(* apply_hunks: the splice *)

\* Vector::split_off(pos): (what stays, what is returned); needs pos <= len
SplitOff(content, pos) ==
    <<SubSeq(content, 1, pos), SubSeq(content, pos + 1, Len(content))>>

SpliceWithoutAfter(content, pos, hunk) ==
    SplitOff(content, pos)[1] \o hunk.target

\* split_off(pos), split_at(s_l), extend(target), extend(after)
Splice(content, pos, hunk) ==
    LET halves == SplitOff(content, pos)
        after == SplitOff(halves[2], Len(hunk.source))[2]
    IN  halves[1] \o hunk.target \o after

\* split_off and split_at assert their index is within the vector
SplicePanics(content, pos, hunk) ==
    \/ pos < 0
    \/ pos > Len(content)
    \/ Len(hunk.source) > Len(content) - pos

---------------------------------------------------------------------------
(* apply_hunks: one iteration of the loop over file_info.hunks *)

DriftTargetOnly(drift, hunk) == drift + Len(hunk.target)

\* source_diff += t_l; source_diff -= s_l
Drift(drift, hunk) == drift + Len(hunk.target) - Len(hunk.source)

\* (*source_line as isize).saturating_add(source_diff) as usize
PivotLine(source_line, drift) == source_line + drift

\* `let pos = match fuzz`, the splice and the drift; found is the search's result
ApplyFound(path, content, drift, source_line, hunk, pivot_line, found) ==
    LET pos == IF found.fuzz.some THEN found.fuzz.v + pivot_line ELSE 0
        base == [path |-> path, source_line |-> source_line, hunk |-> hunk,
                 drift |-> drift, pivot_line |-> pivot_line, old |-> content,
                 tested |-> found.tested, fuzz |-> found.fuzz]
    IN  IF found.panic # ""
        THEN base @@ [outcome |-> "Panic", error |-> None, panic |-> found.panic,
                      content |-> content, source_diff |-> drift]
        ELSE IF ~found.fuzz.some
        THEN base @@ [outcome |-> "Unapplied",
                      error |-> Some(UnappliedHunk(AsU32(source_line))), panic |-> "",
                      content |-> content, source_diff |-> drift]
        ELSE IF SplicePanics(content, pos, hunk)
        THEN base @@ [outcome |-> "Panic", error |-> None, panic |-> "split",
                      content |-> content, source_diff |-> drift]
        ELSE base @@ [outcome |-> "Applied", error |-> None, panic |-> "",
                      content |-> Splice(content, pos, hunk),
                      source_diff |-> Drift(drift, hunk)]

ApplyAt(path, content, drift, source_line, hunk, pivot_line, oc) ==
    ApplyFound(path, content, drift, source_line, hunk, pivot_line,
               Search(content, hunk, pivot_line, 0, <<>>, oc))

\* one iteration of `for (source_line, hunk) in &file_info.hunks`
ApplyHunk(path, content, drift, entry, oc) ==
    ApplyAt(path, content, drift, entry[1], entry[2], PivotLine(entry[1], drift), oc)

---------------------------------------------------------------------------
(* FileState *)

Oid(oid) == [tag |-> "Oid", oid |-> oid, content |-> <<>>]
Removed == [tag |-> "Removed", oid |-> "", content |-> <<>>]
Loaded(content) == [tag |-> "Loaded", oid |-> "", content |-> content]

---------------------------------------------------------------------------
(* apply_hunks on its own: one file, the hunks of one FileInfo in order *)

HunkPath == "f"

InitHunks ==
    /\ overflow_checks \in BOOLEAN
    /\ \E content \in Contents : fileset = (HunkPath :> Loaded(content))
    /\ commits = <<>>
    /\ pc = "hunks"
    /\ index = 0
    /\ report = <<>>
    /\ source_diff = 0
    /\ steps = <<>>
    /\ abort = ""

\* the state after the iteration s: the next hunk, Err(..) or the panic
HunkDone(s) ==
    /\ steps' = Append(steps, s)
    /\ fileset' = [fileset EXCEPT ![HunkPath] = Loaded(s.content)]
    /\ source_diff' = s.source_diff
    /\ pc' = CASE s.outcome = "Applied" -> "hunks"
               [] s.outcome = "Unapplied" -> "err"
               [] OTHER -> "panic"
    /\ abort' = s.panic

\* one iteration of `for (source_line, hunk) in &file_info.hunks`
HunkStep ==
    /\ pc = "hunks"
    /\ Len(steps) < MaxHunks
    /\ \E entry \in HunkEntries :
         HunkDone(ApplyHunk(HunkPath, fileset[HunkPath].content, source_diff,
                            entry, overflow_checks))
    /\ UNCHANGED <<overflow_checks, commits, index, report>>

\* the hunks are exhausted: Ok(())
HunksReturn ==
    /\ pc = "hunks"
    /\ pc' = "ok"
    /\ UNCHANGED <<overflow_checks, fileset, commits, index, report, source_diff, steps, abort>>

NextHunks == HunkStep \/ HunksReturn

SpecHunks == InitHunks /\ [][NextHunks]_vars

---------------------------------------------------------------------------
(* Bounds of the rebase script *)

\* most pick lines of the script
MaxCommits == 3
\* most files of one patch
MaxFiles == 2
\* most files over the whole script
MaxScriptFiles == 3
\* most hunks over the whole script
MaxScriptHunks == 2
\* largest source_start the diff parser reports
MaxStart == 2

Min(a, b) == IF a < b THEN a ELSE b

---------------------------------------------------------------------------
(* The repository: paths in path order, the blobs of the base tree *)

PathOrder == <<"f", "g">>

Paths == {PathOrder[i] : i \in 1..Len(PathOrder)}

\* the blobs a base tree refers to, and their lines
OidOf(path) == IF path = "f" THEN "blob_f" ELSE "blob_g"

BlobLines(oid) == IF oid = "blob_f" THEN <<"A", "B", "A">> ELSE <<"B", "A">>

\* the base trees: the paths that exist at the commit rebased onto
BaseTrees == {{"f"}, {"f", "g"}}

---------------------------------------------------------------------------
(* The patches as the diff parser gives them (unidiff::PatchSet) *)

LINE_TYPE_ADDED == "+"
LINE_TYPE_REMOVED == "-"
LINE_TYPE_CONTEXT == " "
LINE_TYPE_EMPTY == "~"

DiffLine(t, v) == [line_type |-> t, value |-> v]

\* replace A by B; insert A after B; remove B before an empty-marker line
HunkBodies ==
    { <<DiffLine(LINE_TYPE_REMOVED, "A"), DiffLine(LINE_TYPE_ADDED, "B")>>,
      <<DiffLine(LINE_TYPE_CONTEXT, "B"), DiffLine(LINE_TYPE_ADDED, "A")>>,
      <<DiffLine(LINE_TYPE_REMOVED, "B"), DiffLine(LINE_TYPE_EMPTY, "")>> }

ParsedHunks == {[source_start |-> n, lines |-> b] : n \in 0..MaxStart, b \in HunkBodies}

\* (is_added_file, is_removed_file)
FileFlags == {<<TRUE, FALSE>>, <<FALSE, TRUE>>, <<FALSE, FALSE>>}

PatchedFiles(path, maxh) ==
    {[path |-> path, is_added |-> fl[1], is_removed |-> fl[2], hunks |-> hs] :
        fl \in FileFlags, hs \in SeqsUpTo(ParsedHunks, maxh)}

RECURSIVE PatchSetsFrom(_, _, _)
\* the patches over the paths PathOrder[i..], each path at most once and in
\* path order, of at most nfiles files and nhunks hunks
PatchSetsFrom(i, nfiles, nhunks) ==
    IF i > Len(PathOrder) \/ nfiles <= 0 THEN {<<>>}
    ELSE PatchSetsFrom(i + 1, nfiles, nhunks)
         \cup UNION {{<<pf>> \o rest :
                        rest \in PatchSetsFrom(i + 1, nfiles - 1, nhunks - Len(pf.hunks))} :
                     pf \in PatchedFiles(PathOrder[i], Min(MaxHunks, nhunks))}

---------------------------------------------------------------------------
(* add_commit_text *)

RECURSIVE HunkFrom(_, _, _)
\* the loop over hunk.lines(), from the k-th line on
HunkFrom(lines, k, new_hunk) ==
    IF k > Len(lines) THEN new_hunk
    ELSE LET line == lines[k]
             next ==
                 CASE line.line_type = LINE_TYPE_ADDED ->
                        Hunk(new_hunk.source, Append(new_hunk.target, line.value))
                   [] line.line_type = LINE_TYPE_REMOVED ->
                        Hunk(Append(new_hunk.source, line.value), new_hunk.target)
                   [] line.line_type = LINE_TYPE_CONTEXT ->
                        Hunk(Append(new_hunk.source, line.value),
                             Append(new_hunk.target, line.value))
                   [] line.line_type = LINE_TYPE_EMPTY ->
                        Hunk(Append(new_hunk.source, ""), Append(new_hunk.target, ""))
         IN  HunkFrom(lines, k + 1, next)

Kind(file) ==
    IF file.is_added THEN "Addition"
    ELSE IF file.is_removed THEN "Deletion"
    ELSE "Changes"

Normalization(file) == IF file.is_added \/ file.is_removed THEN 0 ELSE 1

\* hunk.source_start - normalization, in usize
SourceLine(source_start, normalization) == source_start - normalization

\* the FileInfo of one file of the patch set
FileInfoOf(file) ==
    [kind |-> Kind(file),
     hunks |-> [k \in 1..Len(file.hunks) |->
                  <<SourceLine(file.hunks[k].source_start, Normalization(file)),
                    HunkFrom(file.hunks[k].lines, 1, Hunk(<<>>, <<>>))>>]]

\* a subtraction of the build with overflow checks panics below 0
ParseOverflows(ps) ==
    \E i \in 1..Len(ps) : \E k \in 1..Len(ps[i].hunks) :
        ps[i].hunks[k].source_start < Normalization(ps[i])

\* files.insert(file.path(), ..) for each file in order: the last one stays
FilesOf(ps) ==
    [path \in {ps[i].path : i \in 1..Len(ps)} |->
        LET last == CHOOSE i \in 1..Len(ps) :
                        /\ ps[i].path = path
                        /\ \A j \in (i + 1)..Len(ps) : ps[j].path # path
        IN  FileInfoOf(ps[last])]

add_commit_text(githash, ps, oc) ==
    IF oc /\ ParseOverflows(ps)
    THEN [panic |-> "overflow", changeset |-> [githash |-> githash, files |-> <<>>]]
    ELSE [panic |-> "", changeset |-> [githash |-> githash, files |-> FilesOf(ps)]]

---------------------------------------------------------------------------
(* apply_hunks *)

RECURSIVE ApplyHunksFrom(_, _, _, _, _, _, _)
RECURSIVE ApplyHunksAfter(_, _, _, _, _, _)
\* the loop over file_info.hunks from the k-th hunk on
ApplyHunksFrom(path, hunks, k, content, drift, done, oc) ==
    IF k > Len(hunks)
    THEN [outcome |-> "Ok", content |-> content, steps |-> done,
          error |-> None, panic |-> ""]
    ELSE ApplyHunksAfter(path, hunks, k, done,
                         ApplyHunk(path, content, drift, hunks[k], oc), oc)

\* after the iteration s of the k-th hunk: the next hunk, or return Err(..)
ApplyHunksAfter(path, hunks, k, done, s, oc) ==
    IF s.outcome = "Applied"
    THEN ApplyHunksFrom(path, hunks, k + 1, s.content, s.source_diff,
                        Append(done, s), oc)
    ELSE [outcome |-> IF s.outcome = "Unapplied" THEN "Err" ELSE "Panic",
          content |-> s.content, steps |-> Append(done, s),
          error |-> s.error, panic |-> s.panic]

apply_hunks(path, file_info, content, oc) ==
    ApplyHunksFrom(path, file_info.hunks, 1, content, 0, <<>>, oc)

---------------------------------------------------------------------------
(* apply *)

MaterializeSkipped(fs, path) == fs

\* FileState::Oid(oid) => Loaded(lines of the blob)
Materialize(fs, path) ==
    IF path \in DOMAIN fs /\ fs[path].tag = "Oid"
    THEN [fs EXCEPT ![path] = Loaded(BlobLines(fs[path].oid))]
    ELSE fs

RECURSIVE AdditionFrom(_, _, _, _)
AdditionFromInserting(fs, path, hunks, k) ==
    IF k > Len(hunks) THEN [fs |-> fs, panic |-> ""]
    ELSE IF path \notin DOMAIN fs
    THEN AdditionFrom((path :> Loaded(hunks[k][2].target)) @@ fs, path, hunks, k + 1)
    ELSE IF fs[path].tag = "Oid" THEN [fs |-> fs, panic |-> "panic_oid"]
    ELSE IF fs[path].tag = "Loaded" THEN [fs |-> fs, panic |-> "todo_addition_loaded"]
    ELSE AdditionFrom([fs EXCEPT ![path] = Loaded(hunks[k][2].target)],
                      path, hunks, k + 1)

\* FileKind::Addition: the loop over file_info.hunks from the k-th hunk on
AdditionFrom(fs, path, hunks, k) ==
    IF k > Len(hunks) THEN [fs |-> fs, panic |-> ""]
    ELSE IF path \notin DOMAIN fs THEN AdditionFrom(fs, path, hunks, k + 1)
    ELSE IF fs[path].tag = "Oid" THEN [fs |-> fs, panic |-> "panic_oid"]
    ELSE IF fs[path].tag = "Loaded" THEN [fs |-> fs, panic |-> "todo_addition_loaded"]
    ELSE AdditionFrom([fs EXCEPT ![path] = Loaded(hunks[k][2].target)],
                      path, hunks, k + 1)

DeletionDroppingKey(fs, path) ==
    [q \in DOMAIN fs \ {path} |-> fs[q]]

\* FileKind::Deletion
Deletion(fs, path) ==
    IF path \in DOMAIN fs THEN [fs EXCEPT ![path] = Removed] ELSE fs

\* `if let Err(err) = apply_hunks(..) { merge_errors.list.push((path, err)) }`
ChangesDone(fs, path, r) ==
    [fs |-> [fs EXCEPT ![path] = Loaded(r.content)],
     errors |-> IF r.outcome = "Err" THEN <<<<path, r.error.v>>>> ELSE <<>>,
     steps |-> r.steps,
     panic |-> r.panic]

\* FileKind::Changes
Changes(fs, path, file_info, oc) ==
    IF path \notin DOMAIN fs
    THEN [fs |-> fs, errors |-> <<>>, steps |-> <<>>, panic |-> ""]
    ELSE IF fs[path].tag = "Oid"
    THEN [fs |-> fs, errors |-> <<>>, steps |-> <<>>, panic |-> "panic_oid"]
    ELSE IF fs[path].tag = "Removed"
    THEN [fs |-> fs, errors |-> <<>>, steps |-> <<>>, panic |-> "todo_changes_removed"]
    ELSE ChangesDone(fs, path, apply_hunks(path, file_info, fs[path].content, oc))

\* the body of `for (path, file_info) in &changeset.files`
Addition(fs, path, file_info) ==
    AdditionFrom(fs, path, file_info.hunks, 1)
        @@ [errors |-> <<>>, steps |-> <<>>]

\* `match file_info.kind`
Dispatch(fs, path, file_info, oc) ==
    CASE file_info.kind = "Addition" -> Addition(fs, path, file_info)
      [] file_info.kind = "Deletion" ->
           [fs |-> Deletion(fs, path), errors |-> <<>>, steps |-> <<>>, panic |-> ""]
      [] file_info.kind = "Changes" -> Changes(fs, path, file_info, oc)

ApplyFileLazy(fs, path, file_info, oc) ==
    Dispatch(IF file_info.kind = "Changes" THEN Materialize(fs, path) ELSE fs,
             path, file_info, oc)

ApplyFile(fs, path, file_info, oc) ==
    Dispatch(Materialize(fs, path), path, file_info, oc)

RECURSIVE ApplyFrom(_, _, _, _, _, _)
RECURSIVE ApplyAfter(_, _, _, _, _, _)
\* the loop over changeset.files (an OrdMap: in path order) from the i-th path on
ApplyFrom(fs, files, i, merge_errors, done, oc) ==
    IF i > Len(PathOrder)
    THEN [outcome |-> IF Len(merge_errors) > 0 THEN "Err" ELSE "Ok",
          fs |-> fs, merge_errors |-> merge_errors, steps |-> done, panic |-> ""]
    ELSE IF PathOrder[i] \notin DOMAIN files
    THEN ApplyFrom(fs, files, i + 1, merge_errors, done, oc)
    ELSE ApplyAfter(files, i, merge_errors, done,
                    ApplyFile(fs, PathOrder[i], files[PathOrder[i]], oc), oc)

ApplyAfterStopOnError(files, i, merge_errors, done, r, oc) ==
    IF r.panic # ""
    THEN [outcome |-> "Panic", fs |-> r.fs, merge_errors |-> merge_errors,
          steps |-> done \o r.steps, panic |-> r.panic]
    ELSE IF r.errors # <<>>
    THEN [outcome |-> "Err", fs |-> r.fs, merge_errors |-> merge_errors \o r.errors,
          steps |-> done \o r.steps, panic |-> ""]
    ELSE ApplyFrom(r.fs, files, i + 1, merge_errors, done \o r.steps, oc)

\* after the file r of the i-th path: the next file, unless the process died
ApplyAfter(files, i, merge_errors, done, r, oc) ==
    IF r.panic # ""
    THEN [outcome |-> "Panic", fs |-> r.fs, merge_errors |-> merge_errors,
          steps |-> done \o r.steps, panic |-> r.panic]
    ELSE ApplyFrom(r.fs, files, i + 1, merge_errors \o r.errors,
                   done \o r.steps, oc)

apply(fs, changeset, oc) == ApplyFrom(fs, changeset.files, 1, <<>>, <<>>, oc)

---------------------------------------------------------------------------
(* verify_rebase_interactive *)

\* commit_to_fileset: every blob of the tree starts as Oid
commit_to_fileset(tree) == [path \in tree |-> Oid(OidOf(path))]

RECURSIVE ScriptFiles(_)
ScriptFiles(cs) ==
    IF cs = <<>> THEN 0
    ELSE Cardinality(DOMAIN cs[1][2].files) + ScriptFiles(Tail(cs))

RECURSIVE HunkCount(_, _)
HunkCount(files, paths) ==
    IF paths = {} THEN 0
    ELSE LET p == CHOOSE q \in paths : TRUE
         IN  Len(files[p].hunks) + HunkCount(files, paths \ {p})

RECURSIVE ScriptHunks(_)
ScriptHunks(cs) ==
    IF cs = <<>> THEN 0
    ELSE HunkCount(cs[1][2].files, DOMAIN cs[1][2].files) + ScriptHunks(Tail(cs))

Init ==
    /\ overflow_checks \in BOOLEAN
    /\ \E tree \in BaseTrees : fileset = commit_to_fileset(tree)
    /\ commits = <<>>
    /\ pc = "parse"
    /\ index = 0
    /\ report = <<>>
    /\ source_diff = 0
    /\ steps = <<>>
    /\ abort = ""

\* commits.push((line_nr + 1, add_commit_text(..)?)), unless it panicked
Parsed(line_nr, r) ==
    IF r.panic # ""
    THEN /\ pc' = "panic"
         /\ abort' = r.panic
         /\ commits' = commits
    ELSE /\ pc' = pc
         /\ abort' = abort
         /\ commits' = Append(commits, <<line_nr, r.changeset>>)

\* one pick line of the script: its commit's diff is parsed and pushed
ParseLine ==
    /\ pc = "parse"
    /\ Len(commits) < MaxCommits
    /\ \E ps \in PatchSetsFrom(1, Min(MaxFiles, MaxScriptFiles - ScriptFiles(commits)),
                               MaxScriptHunks - ScriptHunks(commits)) \ {<<>>} :
         Parsed(Len(commits) + 1,
                add_commit_text(Len(commits) + 1, ps, overflow_checks))
    /\ UNCHANGED <<overflow_checks, fileset, index, report, source_diff, steps>>

\* a `?` of the parse loop returns Err: the diff parser or git2 failed
ParseFail ==
    /\ pc = "parse"
    /\ pc' = "error"
    /\ commits' = <<>>
    /\ UNCHANGED <<overflow_checks, fileset, index, report, source_diff, steps, abort>>

\* the script is read to its end
StartApply ==
    /\ pc = "parse"
    /\ pc' = "apply"
    /\ UNCHANGED <<overflow_checks, fileset, commits, index, report, source_diff, steps, abort>>

PcAfterApplyNoBreak(outcome) ==
    IF outcome = "Panic" THEN "panic" ELSE "apply"

\* Err(err) => break; Ok(()) => the next commit
PcAfterApply(outcome) ==
    CASE outcome = "Panic" -> "panic"
      [] outcome = "Err" -> "done"
      [] OTHER -> "apply"

AppliedWithRollback(line_nr, r) ==
    /\ fileset' = IF r.outcome = "Err" THEN fileset ELSE r.fs
    /\ steps' = r.steps
    /\ abort' = r.panic
    /\ report' = IF r.outcome = "Err"
                 THEN Append(report, [line_nr |-> line_nr, list |-> r.merge_errors])
                 ELSE report
    /\ pc' = PcAfterApply(r.outcome)

\* `match apply(..)`: the error is printed
Applied(line_nr, r) ==
    /\ fileset' = r.fs
    /\ steps' = r.steps
    /\ abort' = r.panic
    /\ report' = IF r.outcome = "Err"
                 THEN Append(report, [line_nr |-> line_nr, list |-> r.merge_errors])
                 ELSE report
    /\ pc' = PcAfterApply(r.outcome)

\* one iteration of `for (index, (line_nr, commit)) in commits`
ApplyCommit ==
    /\ pc = "apply"
    /\ index < Len(commits)
    /\ Applied(commits[index + 1][1],
               apply(fileset, commits[index + 1][2], overflow_checks))
    /\ index' = index + 1
    /\ UNCHANGED <<overflow_checks, commits, source_diff>>

\* the loop is over: Ok(())
Finish ==
    /\ pc = "apply"
    /\ index = Len(commits)
    /\ pc' = "done"
    /\ UNCHANGED <<overflow_checks, fileset, commits, index, report, source_diff, steps, abort>>

Next == ParseLine \/ ParseFail \/ StartApply \/ ApplyCommit \/ Finish

Spec == Init /\ [][Next]_vars

---------------------------------------------------------------------------
(* Properties of apply_hunks *)

\* the window of n lines starting at 0-based q lies inside content
InBounds(content, q, n) == q >= 0 /\ q + n <= Len(content)

\* source occurs verbatim in content at 0-based position q
OccursAt(content, q, source) ==
    /\ InBounds(content, q, Len(source))
    /\ \A i \in 1..Len(source) : content[q + i] = source[i]

Occurrences(content, source) == {q \in 0..Len(content) : OccursAt(content, q, source)}

Abs(n) == IF n < 0 THEN -n ELSE n

StepIds == 1..Len(steps)

\* C3: search order.  Whenever an offset o is accepted, the source occurs at
\* no in-bounds window nearer to the pivot than |o|, and when o = -d the
\* window at pivot + d is out of bounds or differs from the source.
C3_SearchOrder ==
    \A i \in StepIds :
        LET s == steps[i] IN
        s.fuzz.some =>
            LET o == s.fuzz.v IN
            /\ \A o2 \in (1 - Abs(o))..(Abs(o) - 1) :
                   ~OccursAt(s.old, s.pivot_line + o2, s.hunk.source)
            /\ o < 0 => ~OccursAt(s.old, s.pivot_line - o, s.hunk.source)

\* C3 witness: the source occurs at pivot + d and at pivot - d, at no smaller
\* distance, and pivot + d was selected.
C3_Witness ==
    \E i \in StepIds :
        LET s == steps[i] IN
        /\ s.outcome = "Applied"
        /\ s.fuzz.v > 0
        /\ Len(s.hunk.source) > 0
        /\ OccursAt(s.old, s.pivot_line + s.fuzz.v, s.hunk.source)
        /\ OccursAt(s.old, s.pivot_line - s.fuzz.v, s.hunk.source)

\* C4: exact match.  When the window at the pivot equals the source, offset 0
\* is accepted, no other offset is tested, and the hunk is applied at the pivot.
C4_ExactMatch ==
    \A i \in StepIds :
        LET s == steps[i] IN
        OccursAt(s.old, s.pivot_line, s.hunk.source) =>
            /\ s.fuzz = Some(0)
            /\ s.tested = <<0>>
            /\ s.outcome = "Applied"
            /\ s.content = SubSeq(s.old, 1, s.pivot_line) \o s.hunk.target
                           \o SubSeq(s.old, s.pivot_line + Len(s.hunk.source) + 1, Len(s.old))

\* C5: no match.  When the source occurs at no in-bounds window of content,
\* apply_hunks returns Err(UnappliedHunk(n)), n the hunk's predicted line.
C5_NoMatch ==
    \A i \in StepIds :
        LET s == steps[i] IN
        Occurrences(s.old, s.hunk.source) = {} =>
            /\ s.outcome = "Unapplied"
            /\ s.error = Some(UnappliedHunk(s.source_line))

\* C6: shifted content is found.  When the source occurs at an in-bounds q
\* with |q - pivot| < len(content), the hunk is applied (no UnappliedHunk, no
\* abort), and at q when the occurrence is unique.
C6_ShiftedFound ==
    \A i \in StepIds :
        LET s == steps[i]
            occ == Occurrences(s.old, s.hunk.source)
        IN  (\E q \in occ : Abs(q - s.pivot_line) < Len(s.old)) =>
                /\ s.outcome = "Applied"
                /\ \A q \in occ : occ = {q} => s.fuzz.v + s.pivot_line = q

\* C7: splice.  An applied hunk leaves the lines before pos as they were, puts
\* the target at pos, and moves the lines after the window by
\* len(target) - len(source); the length changes by exactly that.
C7_Splice ==
    \A i \in StepIds :
        LET s == steps[i]
            pos == s.fuzz.v + s.pivot_line
            s_l == Len(s.hunk.source)
            t_l == Len(s.hunk.target)
        IN  s.outcome = "Applied" =>
                /\ Len(s.content) = Len(s.old) + t_l - s_l
                /\ \A k \in 1..pos : s.content[k] = s.old[k]
                /\ \A k \in 1..t_l : s.content[pos + k] = s.hunk.target[k]
                /\ \A k \in (pos + s_l + 1)..Len(s.old) :
                       s.content[k + t_l - s_l] = s.old[k]

\* C7 witness: a window with lines before and after it is replaced by a
\* target of another length.
C7_Witness ==
    \E i \in StepIds :
        LET s == steps[i]
            pos == s.fuzz.v + s.pivot_line
        IN  /\ s.outcome = "Applied"
            /\ pos > 0
            /\ Len(s.hunk.source) > 0
            /\ Len(s.hunk.target) > 0
            /\ Len(s.hunk.target) # Len(s.hunk.source)
            /\ pos + Len(s.hunk.source) < Len(s.old)

RECURSIVE DeltaBefore(_, _)
\* sum over the steps j < i of the same path of len(target_j) - len(source_j)
DeltaBefore(i, path) ==
    IF i <= 1 THEN 0
    ELSE DeltaBefore(i - 1, path)
         + (IF steps[i - 1].path = path
            THEN Len(steps[i - 1].hunk.target) - Len(steps[i - 1].hunk.source)
            ELSE 0)

\* C8: drift accumulation.  The pivot of the i-th hunk of a call is its raw
\* predicted line plus the length deltas of the hunks before it, whatever the
\* offsets those were placed at; the first hunk's pivot is its predicted line.
C8_Drift ==
    \A i \in StepIds :
        steps[i].pivot_line = steps[i].source_line + DeltaBefore(i, steps[i].path)

\* C8 witness: hunk 1 was placed away from its pivot and changes the length;
\* hunk 2 is applied with its pivot moved by exactly that change.
C8_Witness ==
    /\ Len(steps) = 2
    /\ steps[1].outcome = "Applied"
    /\ steps[1].fuzz.v # 0
    /\ Len(steps[1].hunk.target) # Len(steps[1].hunk.source)
    /\ steps[2].outcome = "Applied"
    /\ steps[2].pivot_line = steps[2].source_line
                              + Len(steps[1].hunk.target) - Len(steps[1].hunk.source)

---------------------------------------------------------------------------
(* Properties of the run *)

\* the step applies the next commit of the script
ApplyingNext == pc = "apply" /\ index < Len(commits) /\ index' = index + 1

\* the files of the commit the apply loop takes next
NextFiles == commits[index + 1][2].files

\* C1: early halt.  Once apply() has returned a non-empty MergeErrors, no
\* later patch is applied: the FileSet, the loop index, the report and the
\* hunk iterations stay as they are.
C1_EarlyHalt == [][report # <<>> => UNCHANGED <<fileset, index, report, steps>>]_vars

\* C1 witness: the run stopped at a failing patch k with patches after it.
C1_Witness ==
    /\ pc = "done"
    /\ Len(report) = 1
    /\ report[1].line_nr = index
    /\ index < Len(commits)

\* C2: deletion then reference.  Applying a patch whose only entry is a
\* Changes entry for a path a Deletion left Removed ends in a reported error
\* for that path, not in a panic.
C2_DeletionThenChanges ==
    [][(/\ ApplyingNext
        /\ \E path \in DOMAIN fileset :
             /\ DOMAIN NextFiles = {path}
             /\ NextFiles[path].kind = "Changes"
             /\ fileset[path].tag = "Removed")
       => (/\ pc' # "panic"
           /\ Len(report') = Len(report) + 1)]_vars

\* C9: addition creates the file.  Applying a patch whose only entry is a
\* single-hunk Addition for a path that is Removed or absent leaves the path
\* Loaded with the hunk's target.
C9_AdditionCreates ==
    [][\A path \in Paths :
         (/\ ApplyingNext
          /\ DOMAIN NextFiles = {path}
          /\ NextFiles[path].kind = "Addition"
          /\ Len(NextFiles[path].hunks) = 1
          /\ (path \in DOMAIN fileset => fileset[path].tag = "Removed"))
         => (/\ path \in DOMAIN fileset'
             /\ fileset'[path] = Loaded(NextFiles[path].hunks[1][2].target))]_vars

\* hunks in ascending, non-overlapping predicted-line order
Monotonic(hunks) ==
    \A k \in 1..(Len(hunks) - 1) :
        hunks[k + 1][1] >= hunks[k][1] + Len(hunks[k][2].source)

\* C10: non-monotonic hunk ordering is rejected.  No ChangeSet is built from a
\* patch whose hunks of one file are out of order or overlap.
C10_NonMonotonicRejected ==
    \A i \in 1..Len(commits) :
        \A path \in DOMAIN commits[i][2].files :
            Monotonic(commits[i][2].files[path].hunks)

---------------------------------------------------------------------------
(* Properties of apply *)

\* the position of a path in path order
PathIndex(p) == CHOOSE i \in 1..Len(PathOrder) : PathOrder[i] = p

\* the entries of a patch for the paths ordered before p
FilesBefore(files, p) ==
    [q \in {x \in DOMAIN files : PathIndex(x) < PathIndex(p)} |-> files[q]]

\* apply() of the next commit panics in an entry ordered before p, so the
\* entry of p is never reached
DiesBefore(p) ==
    apply(fileset,
          [githash |-> commits[index + 1][2].githash,
           files |-> FilesBefore(NextFiles, p)],
          overflow_checks).panic # ""

\* the (path, MergeError) pairs the step reports
NewErrors == IF Len(report') > Len(report) THEN report'[Len(report')].list ELSE <<>>

ErrorPaths(list) == {list[i][1] : i \in 1..Len(list)}

\* C11: deletion is unconditional.  Whenever apply() reaches a Deletion entry
\* for a path of the FileSet, whatever the path's state (Oid, Loaded, Removed)
\* and whatever the entry's hunks, the path is Removed afterwards and the
\* patch's MergeErrors names no error for it.
C11_DeletionUnconditional ==
    [][\A p \in DOMAIN fileset :
         (/\ ApplyingNext
          /\ p \in DOMAIN NextFiles
          /\ NextFiles[p].kind = "Deletion"
          /\ ~DiesBefore(p))
         => (/\ p \in DOMAIN fileset'
             /\ fileset'[p] = Removed
             /\ p \notin ErrorPaths(NewErrors))]_vars

\* C11 witness: a Deletion entry carrying a hunk was applied to a path that an
\* earlier Changes patch had left Loaded, and the path is Removed.
C11_Witness ==
    /\ index = 2
    /\ abort = ""
    /\ \E p \in DOMAIN fileset :
         /\ p \in DOMAIN commits[1][2].files
         /\ commits[1][2].files[p].kind = "Changes"
         /\ p \in DOMAIN commits[2][2].files
         /\ commits[2][2].files[p].kind = "Deletion"
         /\ Len(commits[2][2].files[p].hunks) > 0
         /\ fileset[p] = Removed

\* C12: bounds safety of the locator.  Every offset that is compared (0, +d
\* and -d alike) has its window inside content, no comparison reads a content
\* index outside content, and an accepted position pos satisfies
\* pos + len(source) <= len(content).
C12_BoundsSafety ==
    \A i \in StepIds :
        LET s == steps[i] IN
        /\ \A k \in 1..Len(s.tested) :
               InBounds(s.old, s.pivot_line + s.tested[k], Len(s.hunk.source))
        /\ s.panic # "index"
        /\ s.fuzz.some =>
               InBounds(s.old, s.pivot_line + s.fuzz.v, Len(s.hunk.source))

\* the hunk iterations of one path, in order
PathSteps(ss, p) == SelectSeq(ss, LAMBDA s : s.path = p)

Fails(ps) == ps # <<>> /\ ps[Len(ps)].outcome = "Unapplied"

\* C13: per-file stop, per-patch independence.  In every apply(): the hunks of
\* a file are attempted in order and none after a hunk that failed to locate;
\* when apply() returns, every Changes file of the patch had all its hunks
\* attempted up to its first failure, MergeErrors holds exactly one pair
\* (path, UnappliedHunk(predicted line)) for each file with a failing hunk and
\* none for any other path, and apply() returned Err iff that list is
\* non-empty.
C13_PerFileStop ==
    [][ApplyingNext =>
        /\ \A p \in DOMAIN NextFiles :
             LET ps == PathSteps(steps', p)
                 hs == NextFiles[p].hunks
             IN  /\ Len(ps) <= Len(hs)
                 /\ \A j \in 1..Len(ps) :
                        /\ ps[j].hunk = hs[j][2]
                        /\ ps[j].source_line = hs[j][1]
                        /\ ps[j].outcome = "Unapplied" => j = Len(ps)
                 /\ (pc' # "panic" /\ p \in DOMAIN fileset
                         /\ NextFiles[p].kind = "Changes")
                        => (Len(ps) = Len(hs) \/ Fails(ps))
                 /\ pc' # "panic" =>
                        /\ Fails(ps) <=> p \in ErrorPaths(NewErrors)
                        /\ Fails(ps) =>
                               \E k \in 1..Len(NewErrors) :
                                   NewErrors[k] = <<p, UnappliedHunk(ps[Len(ps)].source_line)>>
        /\ pc' # "panic" =>
             /\ \A k1, k2 \in 1..Len(NewErrors) :
                    NewErrors[k1][1] = NewErrors[k2][1] => k1 = k2
             /\ ErrorPaths(NewErrors) \subseteq DOMAIN NextFiles
             /\ pc' = "done" <=> NewErrors # <<>>
             /\ Len(report') = Len(report) + (IF NewErrors # <<>> THEN 1 ELSE 0)]_vars

\* C13 witness: one patch with two Changes files, each with a hunk that failed
\* to locate: both files were attempted and both are named, once each.
C13_Witness ==
    /\ pc = "done"
    /\ Len(report) = 1
    /\ Len(report[1].list) = 2
    /\ report[1].list[1][1] # report[1].list[2][1]
    /\ Len(steps) = 2
    /\ steps[1].outcome = "Unapplied"
    /\ steps[2].outcome = "Unapplied"

\* C14: addition on an existing file is a named error.  Applying a patch whose
\* only entry is an Addition for a path that is Oid or Loaded, or an Addition
\* with more than one hunk, ends in a reported error naming the path and not
\* in a panic; and no dispatch of any kind on any state ends the process in an
\* unimplemented or unreachable arm.
C14_AdditionOnExisting ==
    [][ApplyingNext =>
        /\ abort' \notin {"panic_oid", "todo_addition_loaded", "todo_changes_removed"}
        /\ \A p \in Paths :
             (/\ DOMAIN NextFiles = {p}
              /\ NextFiles[p].kind = "Addition"
              /\ \/ p \in DOMAIN fileset /\ fileset[p].tag \in {"Oid", "Loaded"}
                 \/ Len(NextFiles[p].hunks) > 1)
             => (/\ pc' # "panic"
                 /\ p \in ErrorPaths(NewErrors))]_vars

\* C15: read at most once.  No step puts a path back into Oid, so the blob of
\* a path is read (Oid materialized to Loaded) in at most one step of the run;
\* that step is the first apply() that reaches an entry for the path, of
\* whatever kind, and the content read is the blob's; a path no entry touches
\* stays Oid.
C15_ReadOnce ==
    [][\A p \in DOMAIN fileset :
         /\ p \in DOMAIN fileset'
         /\ fileset[p].tag # "Oid" => fileset'[p].tag # "Oid"
         /\ (ApplyingNext /\ p \in DOMAIN NextFiles /\ ~DiesBefore(p))
                => fileset'[p].tag # "Oid"
         /\ (ApplyingNext /\ p \in DOMAIN NextFiles /\ fileset[p].tag = "Oid"
                 /\ PathSteps(steps', p) # <<>>)
                => PathSteps(steps', p)[1].old = BlobLines(fileset[p].oid)
         /\ (fileset[p].tag = "Oid" /\ ~(ApplyingNext /\ p \in DOMAIN NextFiles))
                => fileset'[p] = fileset[p]]_vars

\* C15 witness: two patches touched a path, which was read at the first, and
\* another path of the base tree, touched by none, is still Oid.
C15_Witness ==
    /\ index = 2
    /\ abort = ""
    /\ \E p, q \in DOMAIN fileset :
         /\ p \in DOMAIN commits[1][2].files
         /\ p \in DOMAIN commits[2][2].files
         /\ fileset[p].tag = "Loaded"
         /\ q \notin DOMAIN commits[1][2].files
         /\ q \notin DOMAIN commits[2][2].files
         /\ fileset[q].tag = "Oid"

---------------------------------------------------------------------------
(* Properties of add_commit_text *)

\* C16: predicted-line normalization.  The stored predicted line of a hunk is
\* the reported source start for Addition and Deletion files and the reported
\* start minus 1 for Changes files; parsing never ends in an arithmetic
\* overflow, and every stored predicted line is a non-negative line index,
\* also for a reported start of 0.
C16_Normalization ==
    /\ ~(pc = "panic" /\ index = 0)
    /\ \A i \in 1..Len(commits) :
           \A p \in DOMAIN commits[i][2].files :
               \A k \in 1..Len(commits[i][2].files[p].hunks) :
                   commits[i][2].files[p].hunks[k][1] >= 0
    /\ (pc = "parse" /\ commits = <<>>) =>
           \A p \in Paths :
               \A file \in PatchedFiles(p, 1) :
                   \A k \in 1..Len(file.hunks) :
                       FileInfoOf(file).hunks[k][1] =
                           file.hunks[k].source_start
                           - (IF ~file.is_added /\ ~file.is_removed THEN 1 ELSE 0)

\* C17: zero-hunk files are skipped.  No ChangeSet has a FileInfo without
\* hunks, and applying a patch leaves the FileState of a path whose file has
\* zero hunks in the patch as it was (not materialized, not Removed).
C17_ZeroHunkSkipped ==
    [][/\ \A i \in 1..Len(commits') :
              \A p \in DOMAIN commits'[i][2].files :
                  Len(commits'[i][2].files[p].hunks) > 0
       /\ ApplyingNext =>
              \A p \in DOMAIN fileset \cap DOMAIN NextFiles :
                  Len(NextFiles[p].hunks) = 0 =>
                      p \in DOMAIN fileset' /\ fileset'[p] = fileset[p]]_vars

---------------------------------------------------------------------------
(* Properties of the FileSet *)

\* the entries of a patch for the paths the FileSet has
PresentFiles(files, fs) == [q \in DOMAIN files \cap DOMAIN fs |-> files[q]]

\* C18: absent paths are silent no-ops and the key set is frozen.  No step
\* changes the set of paths of the FileSet, which is the base tree's; an
\* apply() names no error for an absent path and leaves the run exactly as
\* the same patch without its entries for absent paths would: FileSet, hunk
\* iterations, report and outcome.
C18_KeySetFrozen ==
    [][/\ DOMAIN fileset' = DOMAIN fileset
       /\ DOMAIN fileset \in BaseTrees
       /\ ApplyingNext =>
            /\ ErrorPaths(NewErrors) \subseteq DOMAIN fileset
            /\ Applied(commits[index + 1][1],
                       apply(fileset,
                             [githash |-> commits[index + 1][2].githash,
                              files |-> PresentFiles(NextFiles, fileset)],
                             overflow_checks))
            /\ DOMAIN NextFiles \cap DOMAIN fileset = {} =>
                   UNCHANGED <<fileset, report>> /\ pc' = "apply"]_vars

\* C18 witness: an Addition with a hunk, a Changes with a hunk and a Deletion
\* for a path absent from the base tree were applied in turn; the run ended
\* without a report and the FileSet is the base tree, unread.
C18_Witness ==
    /\ pc = "done"
    /\ index = 3
    /\ report = <<>>
    /\ \E p \in Paths \ DOMAIN fileset :
         /\ DOMAIN commits[1][2].files = {p}
         /\ commits[1][2].files[p].kind = "Addition"
         /\ Len(commits[1][2].files[p].hunks) = 1
         /\ DOMAIN commits[2][2].files = {p}
         /\ commits[2][2].files[p].kind = "Changes"
         /\ Len(commits[2][2].files[p].hunks) = 1
         /\ DOMAIN commits[3][2].files = {p}
         /\ commits[3][2].files[p].kind = "Deletion"
    /\ fileset = commit_to_fileset(DOMAIN fileset)

\* C19: Oid never reaches the kind dispatch.  In no run does apply() end in
\* one of the two `FileState::Oid(_) => panic!()` arms: whenever the dispatch
\* runs for a path, the path is Loaded, Removed or absent.
C19_OidNeverDispatched == abort # "panic_oid"

\* C19 witness: the first patch of a run, on paths that were all Oid, ran the
\* Changes dispatch for one path (its hunks were attempted) and the Addition
\* dispatch for another, which found the path Loaded.
C19_Witness ==
    /\ index = 1
    /\ abort = "todo_addition_loaded"
    /\ \E p, q \in DOMAIN fileset :
         /\ p \in DOMAIN commits[1][2].files
         /\ commits[1][2].files[p].kind = "Changes"
         /\ PathSteps(steps, p) # <<>>
         /\ fileset[p].tag = "Loaded"
         /\ q \in DOMAIN commits[1][2].files
         /\ commits[1][2].files[q].kind = "Addition"
         /\ Len(commits[1][2].files[q].hunks) > 0
         /\ fileset[q].tag = "Loaded"

\* the lines of a path as apply() finds them: the blob's when still Oid
ContentAtEntry(fs, p) ==
    IF fs[p].tag = "Oid" THEN BlobLines(fs[p].oid) ELSE fs[p].content

\* C20: no rollback on failure.  When apply_hunks fails at a hunk of a file,
\* the file is left Loaded with the content found at entry spliced by the
\* hunks before the failing one, in order, and nothing of the failing hunk;
\* and when apply() returns Err, every other file of the patch keeps what its
\* entry did: a Deletion left Removed, an Addition left Loaded with its
\* target, a Changes left Loaded with all its hunks spliced.
C20_NoRollback ==
    [][ApplyingNext =>
        \A p \in DOMAIN NextFiles \cap DOMAIN fileset :
            LET ps == PathSteps(steps', p)
                n  == Len(ps)
                fi == NextFiles[p]
            IN  /\ Fails(ps) =>
                    /\ fileset'[p] = Loaded(ps[n].old)
                    /\ ps[1].old = ContentAtEntry(fileset, p)
                    /\ \A j \in 2..n :
                           ps[j].old = Splice(ps[j - 1].old,
                                              ps[j - 1].fuzz.v + ps[j - 1].pivot_line,
                                              ps[j - 1].hunk)
                /\ (NewErrors # <<>> /\ ~Fails(ps)) =>
                    /\ fi.kind = "Deletion" => fileset'[p] = Removed
                    /\ (fi.kind = "Addition" /\ Len(fi.hunks) > 0) =>
                           fileset'[p] = Loaded(fi.hunks[1][2].target)
                    /\ fi.kind = "Changes" =>
                           fileset'[p] = Loaded(IF n = 0 THEN ContentAtEntry(fileset, p)
                                                ELSE ps[n].content)]_vars

\* C20 witness: a patch failed at the second hunk of a file after its first
\* hunk changed the content, and deleted another file; the run stopped with
\* the first file holding the first hunk's result and the other Removed.
C20_Witness ==
    /\ pc = "done"
    /\ Len(report) = 1
    /\ Len(steps) = 2
    /\ steps[1].outcome = "Applied"
    /\ steps[1].content # steps[1].old
    /\ steps[2].outcome = "Unapplied"
    /\ steps[2].path = steps[1].path
    /\ fileset[steps[1].path] = Loaded(steps[1].content)
    /\ \E q \in DOMAIN fileset :
         /\ q \in DOMAIN commits[index][2].files
         /\ commits[index][2].files[q].kind = "Deletion"
         /\ fileset[q] = Removed


===========================================================================
